---------------------------- MODULE Spec2Model ----------------------------
(***************************************************************************)
(* Model of the rawacf metadata engine of SuperDARN-Uptime:                *)
(*   rawacf_utils.py  check_fields, reconstruct_datetime,                  *)
(*                    RawacfRecord.record_from_dics, save_to_db            *)
(*   parse.py         parse_file, parse_rawacf_folder, exc_handler_func    *)
(* The sources are Python 2 (print statements, itertools.izip, reduce), so *)
(* "/" between integers is floor division and comparisons between values  *)
(* of different types do not raise.  The scripts are started without -O,   *)
(* so assert statements are evaluated.                                     *)
(*                                                                         *)
(* SpecRecord: one call of check_fields, reconstruct_datetime,             *)
(*             record_from_dics or parse_file on a decoded epoch sequence, *)
(*             then save_to_db and record_from_tuple on what it returned.  *)
(* Spec:       parse_rawacf_folder on a folder of files, with the pool     *)
(*             workers, the exception queue and the write handler.         *)
(* SpecDays:   process_rawacfs_day and process_rawacfs_month, the cycle of *)
(*             fetching, parsing and clearing day by day.                  *)
(* SpecLogs:   calls of write_bad_rawacf and write_inconsistent_rawacf.    *)
(* SpecHandler: exc_handler_func fed through the queue on its own.         *)
(* SpecStore:  the table exps under INSERT, save_to_db, select_exps and    *)
(*             dump_db.                                                    *)
(* SpecMonths: the generator month_year_iterator.                          *)
(* FairSpec and FairSpecHandler are Spec and SpecHandler with weak         *)
(* fairness of the processes that the operating system schedules.          *)
(***************************************************************************)
EXTENDS Integers, Sequences, FiniteSets, TLC

VARIABLES
    dmap_dicts,      \* the list of epoch dictionaries handed to the call (mutable)
    input,           \* the list as it was when the call was made
    called,          \* which function was called on dmap_dicts
    arg,             \* index of the epoch handed to reconstruct_datetime
    pc,              \* "start" before the call, "done" after it
    outcome,         \* what the call returned or raised
    objection_dict,  \* the ObjectionSet computed by check_fields
    files,           \* parse_rawacf_folder: os.listdir(folder), decoded contents
    task,            \* parse_rawacf_folder: per file, state of its pool task
    recs,            \* parse_rawacf_folder: per file, result of parse_file
    exc_msg_queue,   \* the manager queue of (fname, exception) messages
    write_handler,   \* state of the exception-handler process
    bad_rawacfs,     \* the text of BAD_RAWACFS_FILE
    bad_cpids,       \* the text of BAD_CPIDS_FILE
    parent,          \* parse_rawacf_folder: position of the parent process
    next_rec,        \* parse_rawacf_folder: index of the next rec of the save loop
    exps,            \* rows of table exps of the sqlite store
    selected,        \* the Records built from fetched rows by record_from_tuple
    request,         \* process_rawacfs_day/month: the function and its arguments
    day,             \* process_rawacfs_day/month: the day being processed
    driver,          \* process_rawacfs_day/month: the step about to be made
    days_log,        \* the days fetched, parsed and cleared so far
    sent,            \* the number of messages put on the exception queue
    ym,              \* month_year_iterator: the loop variable ym
    yielded          \* month_year_iterator: the (year, month) pairs yielded

vars == <<dmap_dicts, input, called, arg, pc, outcome, objection_dict,
          files, task, recs, exc_msg_queue, write_handler, bad_rawacfs,
          bad_cpids, parent, next_rec, exps, selected, request, day, driver,
          days_log, sent, ym, yielded>>

recordVars == <<dmap_dicts, input, called, arg, pc, outcome, objection_dict>>

folderVars == <<files, task, recs, exc_msg_queue, write_handler, bad_rawacfs,
                bad_cpids, parent, next_rec, exps>>

dayVars == <<request, day, driver, days_log>>

iteratorVars == <<ym, yielded>>

-----------------------------------------------------------------------------
(* Bounds of the model *)

MaxLen == 3          \* longest epoch sequence of the field families
MaxTimeLen == 4      \* longest epoch sequence of the time family
MaxFiles == 2        \* most files in a folder
MaxRetries == 1      \* most MemoryErrors the decoder raises in one folder
MaxCalls == 3        \* most calls of the two log writers
MaxPuts == 3         \* most messages put on the queue of a lone handler
MaxRows == 2         \* most rows of the table exps of a lone database

-----------------------------------------------------------------------------
(* Program constants *)

CONSISTENT_RAWACF_THRESH == 20

radars16_values ==
    {66, 1, 10, 40, 41, 64, 3, 16, 7, 90, 9, 6, 65, 5, 2, 8, 96, 21,
     4, 15, 20, 11, 22, 13, 12, 14, 18, 19}

\* the four fields check_fields expects to be constant, in the order of the loop
checked_fields == <<"cp", "origin.command", "stid", "xcf">>

-----------------------------------------------------------------------------
(* Generic helpers *)

IsLeap(y) == (y % 4 = 0) /\ ((y % 100 # 0) \/ (y % 400 = 0))

DaysInMonth(y, m) ==
    IF m = 2 THEN (IF IsLeap(y) THEN 29 ELSE 28)
    ELSE IF m \in {4, 6, 9, 11} THEN 30 ELSE 31

\* days before January 1st of year y (datetime._days_before_year)
DaysBeforeYear(y) ==
    (y - 1) * 365 + ((y - 1) \div 4) - ((y - 1) \div 100) + ((y - 1) \div 400)

RECURSIVE DaysBeforeMonth(_, _)
DaysBeforeMonth(y, m) ==
    IF m <= 1 THEN 0 ELSE DaysBeforeMonth(y, m - 1) + DaysInMonth(y, m - 1)

\* datetime.toordinal()
ToOrdinal(t) == DaysBeforeYear(t.yr) + DaysBeforeMonth(t.yr, t.mo) + t.dy

\* datetime(yr, mo, dy, hr, mt, sc, us) raises ValueError unless this holds
DateTimeValid(yr, mo, dy, hr, mt, sc, us) ==
    /\ yr >= 1 /\ yr <= 9999
    /\ mo >= 1 /\ mo <= 12
    /\ dy >= 1 /\ dy <= DaysInMonth(yr, mo)
    /\ hr >= 0 /\ hr <= 23
    /\ mt >= 0 /\ mt <= 59
    /\ sc >= 0 /\ sc <= 59
    /\ us >= 0 /\ us <= 999999

NoTime == [yr |-> 0, mo |-> 0, dy |-> 0, hr |-> 0, mt |-> 0, sc |-> 0, us |-> 0]

-----------------------------------------------------------------------------
(* Python values *)

\* an int object; 'time.us' is the one field whose type the code inspects
Int_(v) == [type |-> "int", val |-> v]
Float_(v) == [type |-> "float", val |-> v]

\* the empty dict
EmptyDict == [k \in {} |-> 0]

\* d[k] = v on a dict
Put(d, k, v) == [x \in (DOMAIN d) \cup {k} |-> IF x = k THEN v ELSE d[x]]

\* the split made at the first whitespace character, blank or tab
split_1_whitespace(cmd) ==
    LET blanks == {i \in 1..Len(cmd) : cmd[i] \in {" ", "\t"}}
    IN  IF blanks = {} THEN <<cmd>>
        ELSE LET k == CHOOSE i \in blanks : \A j \in blanks : i <= j
             IN  <<SubSeq(cmd, 1, k - 1), SubSeq(cmd, k + 1, Len(cmd))>>

\* str.split(' ', 1): split at the first blank, at most once
split_1(cmd) ==
    LET blanks == {i \in 1..Len(cmd) : cmd[i] = " "}
    IN  IF blanks = {} THEN <<cmd>>
        ELSE LET k == CHOOSE i \in blanks : \A j \in blanks : i <= j
             IN  <<SubSeq(cmd, 1, k - 1), SubSeq(cmd, k + 1, Len(cmd))>>

\* the first epoch's value taken for the minimum
MinOf_first(dicts, field, n) == dicts[1][field]

\* min([d[field] for d in dmap_dicts]) (lines 226, 231)
RECURSIVE MinOf(_, _, _)
MinOf(dicts, field, n) ==
    IF n = 1 THEN dicts[1][field]
    ELSE LET m == MinOf(dicts, field, n - 1)
         IN  IF dicts[n][field] < m THEN dicts[n][field] ELSE m

RECURSIVE MaxOf(_, _, _)
MaxOf(dicts, field, n) ==
    IF n = 1 THEN dicts[1][field]
    ELSE LET m == MaxOf(dicts, field, n - 1)
         IN  IF dicts[n][field] > m THEN dicts[n][field] ELSE m

-----------------------------------------------------------------------------
(* rawacf_utils.reconstruct_datetime *)

\* the condition of the correction branch, written "time.us <= 0"
us_needs_correction_nonpositive(us) ==
    us.val <= 0 \/ us.val > 999999 \/ us.type # "int"

\* the condition of the correction branch (line 409)
us_needs_correction(us) ==
    us.val < 0 \/ us.val > 999999 \/ us.type # "int"

\* returns the datetime or the ValueError of the constructor, together with
\* the dictionary, whose 'time.us' the correction branch overwrites
reconstruct_datetime(dic) ==
    LET warned == us_needs_correction(dic["time.us"])
        dic2 == IF warned THEN [dic EXCEPT !["time.us"] = Int_(1)] ELSE dic
        ok == DateTimeValid(dic2["time.yr"], dic2["time.mo"], dic2["time.dy"],
                            dic2["time.hr"], dic2["time.mt"], dic2["time.sc"],
                            dic2["time.us"].val)
    IN  [raised |-> ~ok,
         t |-> IF ok THEN [yr |-> dic2["time.yr"], mo |-> dic2["time.mo"],
                           dy |-> dic2["time.dy"], hr |-> dic2["time.hr"],
                           mt |-> dic2["time.mt"], sc |-> dic2["time.sc"],
                           us |-> dic2["time.us"].val]
               ELSE NoTime,
         warned |-> warned,
         dic |-> dic2]

\* datetime.__sub__: the timedelta b - a, normalised as Python does
\* (0 <= seconds < 86400, 0 <= microseconds < 1000000)
timedelta(b, a) ==
    LET d0 == ToOrdinal(b) - ToOrdinal(a)
        s0 == (b.hr * 3600 + b.mt * 60 + b.sc) - (a.hr * 3600 + a.mt * 60 + a.sc)
        u0 == b.us - a.us
        s1 == s0 + (u0 \div 1000000)
    IN  [days |-> d0 + (s1 \div 86400),
         seconds |-> s1 % 86400,
         microseconds |-> u0 % 1000000]

\* timedelta.total_seconds() as whole seconds plus a fraction in microseconds
total_seconds(td) ==
    [whole |-> td.days * 86400 + td.seconds, micro |-> td.microseconds]

\* one element of np.array(diffs) < CONSISTENT_RAWACF_THRESH (line 248);
\* the fraction is never negative, so only the whole seconds decide
below_thresh(diff) == diff.whole < CONSISTENT_RAWACF_THRESH


-----------------------------------------------------------------------------
(* rawacf_utils.check_fields *)

\* range_max of the beam check, always 24
range_max_always24(stid) == 24

\* range_max of the beam check (line 449)
range_max(stid) == IF stid \in radars16_values THEN 16 ELSE 24

\* the rsep/txpl test with an exact quotient instead of Python 2's floor
rsep_txpl_mismatch_exact(txpl, rsep) == txpl * 3 # 20 * rsep

\* the rsep/txpl test (line 444); "/" floors on Python 2 integers
rsep_txpl_mismatch(txpl, rsep) == ((txpl * 3) \div 20) # rsep

\* the comparison of line 435: first_val != val
field_differs(dicts, i, field) == dicts[1][field] # dicts[i][field]

\* the inner loop leaving at the first objection, as the raise that line 440
\* has commented out would
RECURSIVE check_constant_fields_raising(_, _, _, _)
check_constant_fields_raising(objection, dicts, i, f) ==
    IF f > Len(checked_fields) THEN objection
    ELSE LET field == checked_fields[f]
         IN  IF field_differs(dicts, i, field)
             THEN Put(objection, field, "raised")
             ELSE check_constant_fields_raising(objection, dicts, i, f + 1)

\* inner loop of lines 432-439 over checked_fields[f..4] for epoch i
RECURSIVE check_constant_fields(_, _, _, _)
check_constant_fields(objection, dicts, i, f) ==
    IF f > Len(checked_fields) THEN objection
    ELSE LET field == checked_fields[f]
             dbg_str == [first_val |-> dicts[1][field], field |-> field,
                         val |-> dicts[i][field], index |-> i - 1,
                         len |-> Len(dicts)]
             objection2 == IF field_differs(dicts, i, field)
                           THEN Put(objection, field, dbg_str)
                           ELSE objection
         IN  check_constant_fields(objection2, dicts, i, f + 1)

\* lines 441-447 for one epoch
check_rsep_txpl(objection, dmap_dict) ==
    LET txpl == dmap_dict["txpl"]
        rsep == dmap_dict["rsep"]
        dbg_str == [rsep |-> rsep, txpl |-> txpl]
    IN  IF rsep_txpl_mismatch(txpl, rsep)
        THEN Put(Put(objection, "txpl", dbg_str), "rsep", dbg_str)
        ELSE objection

\* lines 448-452 for one epoch
check_bmnum(objection, dmap_dict) ==
    LET bmnum == dmap_dict["bmnum"]
    IN  IF ~(bmnum >= 0 /\ bmnum < range_max(dmap_dict["stid"]))
        THEN Put(objection, "bmnum", "Saw unexpected value of 'bmnum'")
        ELSE objection

\* the body of the loop of line 430 for epochs i..len
RECURSIVE check_fields_from(_, _, _)
check_fields_from(objection, dicts, i) ==
    IF i > Len(dicts) THEN objection
    ELSE LET o1 == check_constant_fields(objection, dicts, i, 1)
             o2 == check_rsep_txpl(o1, dicts[i])
             o3 == check_bmnum(o2, dicts[i])
         IN  check_fields_from(o3, dicts, i + 1)

check_fields(dicts) == check_fields_from(EmptyDict, dicts, 1)

-----------------------------------------------------------------------------
(* rawacf_utils.RawacfRecord.record_from_dics *)

\* None where a Record is expected
NoRecord == [none |-> TRUE]
IsNone(r) == DOMAIN r = {"none"}

\* lines 239-241: ts grows until reconstruct_datetime raises
RECURSIVE reconstruct_all(_, _, _)
reconstruct_all(dicts, i, ts) ==
    IF i > Len(dicts) THEN [raised |-> FALSE, ts |-> ts, dicts |-> dicts]
    ELSE LET r == reconstruct_datetime(dicts[i])
             dicts2 == [dicts EXCEPT ![i] = r.dic]
         IN  IF r.raised THEN [raised |-> TRUE, ts |-> ts, dicts |-> dicts2]
             ELSE reconstruct_all(dicts2, i + 1, Append(ts, r.t))

\* line 246
diffs_of(ts) ==
    [i \in 1..(Len(ts) - 1) |-> total_seconds(timedelta(ts[i + 1], ts[i]))]

\* line 248: int((np.array(diffs) < CONSISTENT_RAWACF_THRESH).all())
times_consistent_of(diffs) ==
    IF \A i \in 1..Len(diffs) : below_thresh(diffs[i]) THEN 1 ELSE 0

\* lines 209-212 without the test of objection_dict
first_unchecked(dicts, objection, field, sentinel) == dicts[1][field]

\* lines 209-212: the value of a checked field, or its sentinel
first_or_sentinel(dicts, objection, field, sentinel) ==
    IF field \notin DOMAIN objection THEN dicts[1][field] ELSE sentinel

\* lines 220-223 and 250-251: not_corrupt, with the beam objection overlooked
not_corrupt_ignoring_bmnum(objection) == (DOMAIN objection) \ {"bmnum"} = {}

\* lines 220-223 and 250-251: False as soon as objection_dict has a value
not_corrupt_of(objection) == DOMAIN objection = {}

\* dmap_dicts[-1] read as the second epoch
last_index_second(dicts) == 2

\* the index of dmap_dicts[-1] (line 236)
last_index(dicts) == Len(dicts)

\* the call as a whole: what it raises or returns, the dictionaries as the
\* calls of reconstruct_datetime leave them, and the ObjectionSet
record_from_dics(dicts) ==
    IF Len(dicts) = 0
    THEN \* assert(type(dmap_dicts[0]==dict)) indexes the empty list (line 202)
         [kind |-> "IndexError", rec |-> NoRecord, dicts |-> dicts,
          objection |-> EmptyDict]
    ELSE IF Len(dicts) <= 1
    THEN [kind |-> "BadRawacfError", rec |-> NoRecord, dicts |-> dicts,
          objection |-> EmptyDict]
    ELSE
    LET n == Len(dicts)
        objection == check_fields(dicts)
        cpid == first_or_sentinel(dicts, objection, "cp", -1)
        stid == first_or_sentinel(dicts, objection, "stid", -1)
        cmd == first_or_sentinel(dicts, objection, "origin.command", <<>>)
        xcf == first_or_sentinel(dicts, objection, "xcf", -1)
        cmd_spl == split_1(cmd)
        cmd_name == IF Len(cmd_spl) = 1 THEN cmd ELSE cmd_spl[1]
        cmd_args == IF Len(cmd_spl) = 1 THEN <<>> ELSE cmd_spl[2]
        min_tfreq == MinOf(dicts, "tfreq", n)
        max_tfreq == MaxOf(dicts, "tfreq", n)
        min_nave == MinOf(dicts, "nave", n)
        r_start == reconstruct_datetime(dicts[1])
        dicts1 == [dicts EXCEPT ![1] = r_start.dic]
        last == last_index(dicts)
        r_end == reconstruct_datetime(dicts1[last])
        dicts2 == [dicts1 EXCEPT ![last] = r_end.dic]
        all == reconstruct_all(dicts2, 1, <<>>)
    IN  IF r_start.raised
        THEN \* ValueError caught at line 242; ts is unbound at line 246
             [kind |-> "UnboundLocalError", rec |-> NoRecord,
              dicts |-> dicts1, objection |-> objection]
        ELSE IF r_end.raised
        THEN [kind |-> "UnboundLocalError", rec |-> NoRecord,
              dicts |-> dicts2, objection |-> objection]
        ELSE \* a ValueError inside the loop is caught too, and ts, start_dt
             \* and end_dt are all bound: the Record is built from what ts holds
             [kind |-> "Record",
              rec |-> [stid |-> stid, start_dt |-> r_start.t,
                       end_dt |-> r_end.t, cmd_name |-> cmd_name,
                       cmd_args |-> cmd_args, cpid |-> cpid,
                       min_nave |-> min_nave,
                       times_consistent |-> times_consistent_of(diffs_of(all.ts)),
                       not_corrupt |-> not_corrupt_of(objection),
                       min_tfreq |-> min_tfreq, max_tfreq |-> max_tfreq,
                       xcf |-> xcf],
              dicts |-> all.dicts, objection |-> objection]

-----------------------------------------------------------------------------
(* Inputs: epoch dictionaries as the decoder hands them over *)

Time(yr, mo, dy, hr, mt, sc, us) ==
    [yr |-> yr, mo |-> mo, dy |-> dy, hr |-> hr, mt |-> mt, sc |-> sc, us |-> us]

Epoch(cp, cmd, stid, xcf, txpl, rsep, bmnum, tfreq, nave, tm) ==
    [k \in {"cp", "origin.command", "stid", "xcf", "txpl", "rsep", "bmnum",
            "tfreq", "nave", "time.yr", "time.mo", "time.dy", "time.hr",
            "time.mt", "time.sc", "time.us"} |->
        CASE k = "cp" -> cp
          [] k = "origin.command" -> cmd
          [] k = "stid" -> stid
          [] k = "xcf" -> xcf
          [] k = "txpl" -> txpl
          [] k = "rsep" -> rsep
          [] k = "bmnum" -> bmnum
          [] k = "tfreq" -> tfreq
          [] k = "nave" -> nave
          [] k = "time.yr" -> tm.yr
          [] k = "time.mo" -> tm.mo
          [] k = "time.dy" -> tm.dy
          [] k = "time.hr" -> tm.hr
          [] k = "time.mt" -> tm.mt
          [] k = "time.sc" -> tm.sc
          [] k = "time.us" -> tm.us]

\* origin commands, as sequences of characters
CmdScan == <<"n", " ", "-", "s">>
CmdTest == <<"t">>

\* 2017-02-28 23:59:50, and the instants 19.999 s and 20.0 s after it
T0 == Time(2017, 2, 28, 23, 59, 50, Int_(0))
T0plus19999ms == Time(2017, 3, 1, 0, 0, 9, Int_(999000))
T0plus20s == Time(2017, 3, 1, 0, 0, 10, Int_(0))

Times ==
    {T0, T0plus19999ms, T0plus20s,
     Time(2017, 2, 28, 23, 59, 50, Int_(-5)),
     Time(2017, 2, 28, 23, 59, 50, Int_(1000000)),
     Time(2017, 2, 28, 23, 59, 50, Float_(250000)),
     Time(2017, 2, 29, 23, 59, 50, Int_(0)),
     Time(2017, 3, 1, 0, 0, 60, Int_(-5))}

\* commands with blanks and tabs in every position
Cmds ==
    {<<>>, CmdTest, CmdScan, <<"a", "\t", "b">>, <<" ", "a">>,
     <<"a", " ", " ", "b">>, <<"a", "\t", "b", " ", "c">>}

CmdEpochs ==
    {Epoch(3, cmd, 5, 1, 300, 45, 0, 10500, 5, T0) : cmd \in Cmds}

FieldEpochs ==
    {Epoch(cp, CmdScan, stid, xcf, 300, 45, 0, 10500, 5, T0) :
        cp \in {3, 150}, stid \in {5, 33}, xcf \in {0, 1}}

PhysEpochs ==
    {Epoch(3, CmdScan, 5, 1, txpl, rsep, 0, 10500, 5, T0) :
        txpl \in {300, 301, 250}, rsep \in {45, 50, 37}}

BeamEpochs ==
    {Epoch(3, CmdScan, stid, 1, 300, 45, bmnum, 10500, 5, T0) :
        stid \in {5, 33}, bmnum \in {-1, 0, 15, 16, 23, 24}}

FreqEpochs ==
    {Epoch(cp, CmdScan, 5, 1, 300, 45, 0, tfreq, nave, T0) :
        cp \in {3, 150}, tfreq \in {10400, 10500, 10600}, nave \in {0, 5}}

TimeEpochs ==
    {Epoch(3, CmdScan, 5, 1, 300, 45, 0, 10500, 5, tm) : tm \in Times}

MixedEpochs ==
    {Epoch(cp, CmdScan, 33, 1, 300, 45, bmnum, 10500, 5, tm) :
        cp \in {3, 150}, bmnum \in {0, 30}, tm \in {T0, T0plus20s}}

SeqsUpTo(S, n) == UNION {[1..k -> S] : k \in 0..n}

InputSeqs ==
    SeqsUpTo(FieldEpochs, MaxLen) \cup SeqsUpTo(PhysEpochs, MaxLen)
    \cup SeqsUpTo(BeamEpochs, MaxLen) \cup SeqsUpTo(FreqEpochs, MaxLen)
    \cup SeqsUpTo(MixedEpochs, MaxLen) \cup SeqsUpTo(TimeEpochs, MaxTimeLen)
    \cup SeqsUpTo(CmdEpochs, MaxLen)

NoOutcome == [kind |-> "none", rec |-> NoRecord, t |-> NoTime]

IteratorIdle ==
    /\ ym = 0
    /\ yielded = <<>>

NoDays == [fetched |-> {}, parsed |-> {}, cleared |-> {}]

NoRequest == [fn |-> "none", year |-> 0, month |-> 0, day |-> 0]

DayIdle ==
    /\ request = NoRequest
    /\ day = 0
    /\ driver = "idle"
    /\ days_log = NoDays

-----------------------------------------------------------------------------
(* SpecRecord: one call of one of the three functions on a decoded file *)

FolderIdle ==
    /\ files = <<>>
    /\ task = <<>>
    /\ recs = <<>>
    /\ exc_msg_queue = <<>>
    /\ write_handler = "not started"
    /\ bad_rawacfs = <<>>
    /\ bad_cpids = <<>>
    /\ parent = "idle"
    /\ next_rec = 0
    /\ exps = <<>>

InitRecord ==
    /\ dmap_dicts \in InputSeqs
    /\ input = dmap_dicts
    /\ called = "none"
    /\ arg = 0
    /\ pc = "start"
    /\ outcome = NoOutcome
    /\ objection_dict = EmptyDict
    /\ FolderIdle
    /\ selected = <<>>
    /\ sent = 0
    /\ IteratorIdle
    /\ DayIdle

Call_check_fields ==
    /\ pc = "start"
    /\ called' = "check_fields"
    /\ objection_dict' = check_fields(dmap_dicts)
    /\ outcome' = [NoOutcome EXCEPT !.kind = "dict"]
    /\ pc' = "done"
    /\ UNCHANGED <<dmap_dicts, input, arg>>
    /\ UNCHANGED <<folderVars, selected, dayVars, sent, iteratorVars>>

Call_reconstruct_datetime ==
    /\ pc = "start"
    /\ \E i \in 1..Len(dmap_dicts) :
        LET r == reconstruct_datetime(dmap_dicts[i])
        IN  /\ arg' = i
            /\ dmap_dicts' = [dmap_dicts EXCEPT ![i] = r.dic]
            /\ outcome' = [kind |-> IF r.raised THEN "ValueError" ELSE "datetime",
                           rec |-> NoRecord, t |-> r.t]
    /\ called' = "reconstruct_datetime"
    /\ pc' = "done"
    /\ UNCHANGED <<input, objection_dict>>
    /\ UNCHANGED <<folderVars, selected, dayVars, sent, iteratorVars>>

Call_record_from_dics ==
    /\ pc = "start"
    /\ LET r == record_from_dics(dmap_dicts)
       IN  /\ dmap_dicts' = r.dicts
           /\ objection_dict' = r.objection
           /\ outcome' = [kind |-> r.kind, rec |-> r.rec, t |-> NoTime]
    /\ called' = "record_from_dics"
    /\ pc' = "done"
    /\ UNCHANGED <<input, arg>>
    /\ UNCHANGED <<folderVars, selected, dayVars, sent, iteratorVars>>

-----------------------------------------------------------------------------
(* rawacf_utils.RawacfRecord.save_to_db and the table exps *)

\* str(d) for one decimal digit
DigitChar(d) == <<"0", "1", "2", "3", "4", "5", "6", "7", "8", "9">>[d + 1]

\* n written with exactly w digits, zero padded ("%02d", "%04d", "%06d")
RECURSIVE Padded(_, _)
Padded(n, w) ==
    IF w = 0 THEN <<>> ELSE Append(Padded(n \div 10, w - 1), DigitChar(n % 10))

\* an ISO text that puts the day before the month and the year
isoformat_day_first(t) ==
    Padded(t.dy, 2) \o <<"-">> \o Padded(t.mo, 2) \o <<"-">> \o Padded(t.yr, 4)
    \o <<"T">> \o Padded(t.hr, 2) \o <<":">> \o Padded(t.mt, 2) \o <<":">>
    \o Padded(t.sc, 2)
    \o (IF t.us = 0 THEN <<>> ELSE <<".">> \o Padded(t.us, 6))

\* datetime.isoformat(): the fraction is left out when microsecond is 0
isoformat(t) ==
    Padded(t.yr, 4) \o <<"-">> \o Padded(t.mo, 2) \o <<"-">> \o Padded(t.dy, 2)
    \o <<"T">> \o Padded(t.hr, 2) \o <<":">> \o Padded(t.mt, 2) \o <<":">>
    \o Padded(t.sc, 2)
    \o (IF t.us = 0 THEN <<>> ELSE <<".">> \o Padded(t.us, 6))

\* int(x) of a bool
int_of_bool(x) == IF x THEN 1 ELSE 0

\* the parameters of the INSERT of lines 148-155
row_of(rec) ==
    [stid |-> rec.stid, start_iso |-> isoformat(rec.start_dt),
     end_iso |-> isoformat(rec.end_dt), cmd_name |-> rec.cmd_name,
     cmd_args |-> rec.cmd_args, cpid |-> rec.cpid,
     min_nave |-> rec.min_nave,
     times_consistent |-> rec.times_consistent,
     not_corrupt |-> int_of_bool(rec.not_corrupt), min_tfreq |-> rec.min_tfreq,
     max_tfreq |-> rec.max_tfreq, xcf |-> rec.xcf]

\* PRIMARY KEY (stid, start_iso) of the table (line 611)
key_exists(table, row) ==
    \E k \in 1..Len(table) :
        table[k].stid = row.stid /\ table[k].start_iso = row.start_iso

\* the INSERT into a table that has no primary key
save_to_db_unconstrained(table, rec) == Append(table, row_of(rec))

\* the table after save_to_db: the IntegrityError of a duplicate key is caught
\* and logged, and the table stays as it was
save_to_db(table, rec) ==
    IF key_exists(table, row_of(rec)) THEN table ELSE Append(table, row_of(rec))

\* int(c) for one decimal digit character
DigitVal(c) == CHOOSE d \in 0..9 : DigitChar(d) = c

\* int(s) of a string of decimal digits
RECURSIVE int_of_str(_)
int_of_str(s) ==
    IF Len(s) = 0 THEN 0
    ELSE int_of_str(SubSeq(s, 1, Len(s) - 1)) * 10 + DigitVal(s[Len(s)])

\* s.split(c): the parts of s between the occurrences of c
RECURSIVE split(_, _)
split(s, c) ==
    LET at == {i \in 1..Len(s) : s[i] = c}
    IN  IF at = {} THEN <<s>>
        ELSE LET k == CHOOSE i \in at : \A j \in at : i <= j
             IN  <<SubSeq(s, 1, k - 1)>> \o split(SubSeq(s, k + 1, Len(s)), c)

\* iso_to_dt with the fraction of the seconds left out of the datetime
iso_to_dt_whole_seconds(iso) ==
    LET ymd == split(split(iso, "T")[1], "-")
        hms == split(split(iso, "T")[2], ":")
    IN  [yr |-> int_of_str(ymd[1]), mo |-> int_of_str(ymd[2]),
         dy |-> int_of_str(ymd[3]), hr |-> int_of_str(hms[1]),
         mt |-> int_of_str(hms[2]), sc |-> int_of_str(split(hms[3], ".")[1]),
         us |-> 0]

\* iso_to_dt (lines 511-532): the datetime parsed from its ISO text; the text
\* after the "." is read as an integer number of microseconds
iso_to_dt(iso) ==
    LET ymd == split(split(iso, "T")[1], "-")
        hms == split(split(iso, "T")[2], ":")
        scs == split(hms[3], ".")
    IN  [yr |-> int_of_str(ymd[1]), mo |-> int_of_str(ymd[2]),
         dy |-> int_of_str(ymd[3]), hr |-> int_of_str(hms[1]),
         mt |-> int_of_str(hms[2]), sc |-> int_of_str(scs[1]),
         us |-> IF Len(scs) = 1 THEN 0 ELSE int_of_str(scs[2])]

\* a row as cur.fetchall() hands it over: the columns in the order of the
\* CREATE TABLE statement
fetch_tuple(row) ==
    <<row.stid, row.start_iso, row.end_iso, row.cmd_name, row.cmd_args,
      row.cpid, row.min_nave, row.times_consistent, row.not_corrupt,
      row.min_tfreq, row.max_tfreq, row.xcf>>

\* RawacfRecord.record_from_tuple: the flags are handed to the constructor
\* as the integers that the table holds
record_from_tuple(tup) ==
    [stid |-> tup[1], start_dt |-> iso_to_dt(tup[2]),
     end_dt |-> iso_to_dt(tup[3]), cmd_name |-> tup[4], cmd_args |-> tup[5],
     cpid |-> tup[6], min_nave |-> tup[7], times_consistent |-> tup[8],
     not_corrupt |-> tup[9], min_tfreq |-> tup[10], max_tfreq |-> tup[11],
     xcf |-> tup[12]]

-----------------------------------------------------------------------------
(* parse.parse_file *)

\* parse_file returning None for a file whose Record is not_corrupt = False
parse_file_dropping_inconsistent(fname, file) ==
    IF file.ext \notin {".bz2", ".rawacf"}
    THEN [kind |-> "return", rec |-> NoRecord, puts |-> <<>>]
    ELSE IF file.decode = "DmapDataError"
    THEN [kind |-> "return", rec |-> NoRecord,
          puts |-> <<[fname |-> fname, exc |-> "DmapDataError"]>>]
    ELSE LET r == record_from_dics(file.dics)
         IN  IF r.kind # "Record"
             THEN [kind |-> r.kind, rec |-> NoRecord, puts |-> <<>>]
             ELSE IF r.rec.not_corrupt = FALSE
             THEN [kind |-> "return", rec |-> NoRecord,
                   puts |-> <<[fname |-> fname,
                               exc |-> "InconsistentRawacfError"]>>]
             ELSE [kind |-> "return", rec |-> r.rec, puts |-> <<>>]

\* what one run of parse_file does with a file whose decoding did not run out
\* of memory: the messages it puts on the queue, and what it returns or raises
parse_file(fname, file) ==
    IF file.ext \notin {".bz2", ".rawacf"}
    THEN [kind |-> "return", rec |-> NoRecord, puts |-> <<>>]
    ELSE IF file.decode = "DmapDataError"
    THEN [kind |-> "return", rec |-> NoRecord,
          puts |-> <<[fname |-> fname, exc |-> "DmapDataError"]>>]
    ELSE LET r == record_from_dics(file.dics)
         IN  IF r.kind # "Record"
             THEN \* only InconsistentRawacfError is caught at line 313
                  [kind |-> r.kind, rec |-> NoRecord, puts |-> <<>>]
             ELSE IF r.rec.not_corrupt = FALSE
             THEN [kind |-> "return", rec |-> r.rec,
                   puts |-> <<[fname |-> fname,
                               exc |-> "InconsistentRawacfError"]>>]
             ELSE [kind |-> "return", rec |-> r.rec, puts |-> <<>>]

-----------------------------------------------------------------------------
(* parse.write_inconsistent_rawacf, parse.write_bad_rawacf and the dispatch *)
(* of parse.exc_handler_func.  A text is a sequence of pieces: the newline  *)
(* character "\n", or a string that holds no newline.                       *)

\* an exception object: its exact type and the text that str(exc) gives
Exc(type, msg) == [type |-> type, msg |-> msg]

\* the message of parse_file's InconsistentRawacfError (line 309)
InconsistentMessage == <<"Data inconsistency encountered in rawacf file.">>

\* a message of the decoder, which ends its first line with a newline
DmapMessage == <<"Error reading dmap from stream", "\n", "at record 0">>

\* the exception that parse_file put on the queue, by its type
exc_of(type) ==
    CASE type = "InconsistentRawacfError" -> Exc(type, InconsistentMessage)
      [] type = "DmapDataError" -> Exc(type, DmapMessage)
      [] type = "MemoryError" -> Exc(type, <<>>)

NotNewline(piece) == piece # "\n"

\* reduce(lambda x, y: x+y, str(exc).split('\n')): the text without newlines
remove_newlines(text) == SelectSeq(text, NotNewline)

\* the file after write_inconsistent_rawacf: fname + ':' + str(exc) + '\n'
write_inconsistent_rawacf(log, fname, exc) ==
    log \o <<fname, ":">> \o exc.msg \o <<"\n">>

\* write_bad_rawacf writing str(exc) as it is
write_bad_rawacf_keeping_newlines(log, fname, exc) ==
    log \o <<fname, ":", "\"">> \o exc.msg \o <<"\"", "\n">>

\* the file after write_bad_rawacf: fname + ':"' + str(exc_tmp) + '"\n'
write_bad_rawacf(log, fname, exc) ==
    log \o <<fname, ":", "\"">> \o remove_newlines(exc.msg) \o <<"\"", "\n">>

\* lines 344-355: what the handler does with one message, on the two files;
\* the types are compared with ==, so a subclass matches no branch
exc_handler_dispatch(logs, fname, exc) ==
    IF exc.type = "InconsistentRawacfError"
    THEN [logs EXCEPT !.bad_cpids = write_inconsistent_rawacf(@, fname, exc)]
    ELSE IF exc.type = "DmapDataError"
    THEN [logs EXCEPT !.bad_rawacfs = write_bad_rawacf(@, fname, exc)]
    ELSE logs

-----------------------------------------------------------------------------
(* SpecRecord, continued: the file is parsed, its Record saved and read back *)

\* parse_file on a .rawacf file that the decoder reads as dmap_dicts
Call_parse_file ==
    /\ pc = "start"
    /\ LET r == parse_file("f", [ext |-> ".rawacf", decode |-> "ok",
                                  dics |-> dmap_dicts])
           d == record_from_dics(dmap_dicts)
       IN  /\ dmap_dicts' = d.dicts
           /\ objection_dict' = d.objection
           /\ outcome' = [kind |-> r.kind, rec |-> r.rec, t |-> NoTime]
           /\ exc_msg_queue' = exc_msg_queue \o r.puts
    /\ called' = "parse_file"
    /\ pc' = "done"
    /\ UNCHANGED <<input, arg>>
    /\ UNCHANGED <<files, task, recs, write_handler, bad_rawacfs, bad_cpids,
                   parent, next_rec, exps>>
    /\ UNCHANGED <<selected, dayVars, sent, iteratorVars>>

\* the Record that parse_file returned is saved, as parse_rawacf_folder does
\* at lines 251-254
Call_save_to_db ==
    /\ pc = "done"
    /\ called = "parse_file"
    /\ ~IsNone(outcome.rec)
    /\ exps' = save_to_db(exps, outcome.rec)
    /\ pc' = "saved"
    /\ UNCHANGED <<dmap_dicts, input, called, arg, outcome, objection_dict>>
    /\ UNCHANGED <<files, task, recs, exc_msg_queue, write_handler, bad_rawacfs,
                   bad_cpids, parent, next_rec>>
    /\ UNCHANGED <<selected, dayVars, sent, iteratorVars>>

\* the rows are fetched and a Record is built from each
Call_record_from_tuple ==
    /\ pc = "saved"
    /\ selected' = [k \in 1..Len(exps) |-> record_from_tuple(fetch_tuple(exps[k]))]
    /\ pc' = "loaded"
    /\ UNCHANGED <<dmap_dicts, input, called, arg, outcome, objection_dict>>
    /\ UNCHANGED folderVars
    /\ UNCHANGED <<dayVars, sent, iteratorVars>>

NextRecord ==
    \/ Call_check_fields
    \/ Call_reconstruct_datetime
    \/ Call_record_from_dics
    \/ Call_parse_file
    \/ Call_save_to_db
    \/ Call_record_from_tuple

SpecRecord == InitRecord /\ [][NextRecord]_vars

-----------------------------------------------------------------------------
(* Folders: what os.listdir and the decoder yield *)

EpochAt(cp, stid, tm) == Epoch(cp, CmdScan, stid, 1, 300, 45, 0, 10500, 5, tm)

BadDay == Time(2017, 2, 29, 23, 59, 50, Int_(0))

File(ext, decode, dics) == [ext |-> ext, decode |-> decode, dics |-> dics]

FileKinds ==
    {File(".txt", "ok", <<>>),
     File(".bz2", "DmapDataError", <<>>),
     File(".rawacf", "ok", <<EpochAt(3, 5, T0), EpochAt(3, 5, T0plus19999ms)>>),
     File(".bz2", "ok", <<EpochAt(3, 33, T0), EpochAt(150, 33, T0plus20s)>>),
     File(".bz2", "ok", <<EpochAt(3, 5, T0)>>),
     File(".rawacf", "ok", <<EpochAt(3, 5, BadDay), EpochAt(3, 5, T0)>>)}

\* what parse_file does with the i-th file of a folder, for each kind of file:
\* it depends on the name and the contents of the file alone
parse_file_of == [i \in 1..MaxFiles, f \in FileKinds |-> parse_file(i, f)]

RecordIdle ==
    /\ dmap_dicts = <<>>
    /\ input = <<>>
    /\ called = "none"
    /\ arg = 0
    /\ pc = "idle"
    /\ outcome = NoOutcome
    /\ objection_dict = EmptyDict

-----------------------------------------------------------------------------
(* Spec: parse.parse_rawacf_folder with its pool and its write handler *)

Init ==
    /\ files \in SeqsUpTo(FileKinds, MaxFiles)
    /\ task = [i \in 1..Len(files) |->
                  [state |-> "queued", attempts |-> 0, rec |-> NoRecord]]
    /\ recs = <<>>
    /\ exc_msg_queue = <<>>
    /\ write_handler = "not started"
    /\ bad_rawacfs = <<>>
    /\ bad_cpids = <<>>
    /\ parent = "start"
    /\ next_rec = 0
    /\ exps = <<>>
    /\ RecordIdle
    /\ selected = <<>>
    /\ sent = 0
    /\ IteratorIdle
    /\ DayIdle

\* lines 231-234: the handler process is started before the pool
StartWriteHandler ==
    /\ parent = "start"
    /\ write_handler' = "running"
    /\ parent' = "map"
    /\ UNCHANGED <<files, task, recs, exc_msg_queue, bad_rawacfs, bad_cpids,
                   next_rec, exps>>
    /\ UNCHANGED <<recordVars, selected, dayVars, sent, iteratorVars>>

\* the pool's workers outlive a map that raised in the parent
PoolAlive == parent \in {"map", "raised"}

\* the number of MemoryErrors raised so far
RECURSIVE MemoryErrors(_, _)
MemoryErrors(t, n) == IF n = 0 THEN 0 ELSE MemoryErrors(t, n - 1) + t[n].attempts

\* a worker runs parse_file on file i and the decoder runs out of memory:
\* lines 297-303, one message, a sleep, and the same call again
ParseFileMemoryError(i) ==
    /\ PoolAlive
    /\ task[i].state = "queued"
    /\ files[i].ext \in {".bz2", ".rawacf"}
    /\ MemoryErrors(task, Len(task)) < MaxRetries
    /\ exc_msg_queue' = Append(exc_msg_queue, [fname |-> i, exc |-> "MemoryError"])
    /\ task' = [task EXCEPT ![i].attempts = @ + 1]
    /\ UNCHANGED <<files, recs, write_handler, bad_rawacfs, bad_cpids, parent,
                   next_rec, exps>>
    /\ UNCHANGED <<recordVars, selected, dayVars, sent, iteratorVars>>

\* the decoder runs out of memory in every attempt: parse_file calls itself
\* from each except clause (line 303) until the interpreter refuses a deeper
\* call with a RuntimeError, which no clause catches; the depth that the
\* interpreter allows is scaled down to MaxRetries
ParseFileRecursionLimit(i) ==
    /\ PoolAlive
    /\ task[i].state = "queued"
    /\ files[i].ext \in {".bz2", ".rawacf"}
    /\ task[i].attempts = MaxRetries
    /\ task' = [task EXCEPT ![i].state = "RuntimeError"]
    /\ UNCHANGED <<files, recs, exc_msg_queue, write_handler, bad_rawacfs,
                   bad_cpids, parent, next_rec, exps>>
    /\ UNCHANGED <<recordVars, selected, dayVars, sent, iteratorVars>>

\* a worker that writes the lines of its messages into the lists itself
ParseFile_writing(i) ==
    /\ PoolAlive
    /\ task[i].state = "queued"
    /\ LET r == parse_file(i, files[i])
           logs == IF r.puts = <<>>
                   THEN [bad_rawacfs |-> bad_rawacfs, bad_cpids |-> bad_cpids]
                   ELSE exc_handler_dispatch(
                            [bad_rawacfs |-> bad_rawacfs, bad_cpids |-> bad_cpids],
                            ToString(i), exc_of(r.puts[1].exc))
       IN  /\ bad_cpids' = logs.bad_cpids
           /\ bad_rawacfs' = logs.bad_rawacfs
           /\ task' = [task EXCEPT ![i].state =
                                       IF r.kind = "return" THEN "returned" ELSE r.kind,
                                   ![i].rec = r.rec]
    /\ UNCHANGED <<files, recs, exc_msg_queue, write_handler, parent, next_rec,
                   exps>>
    /\ UNCHANGED <<recordVars, selected, dayVars, sent, iteratorVars>>

\* a worker runs parse_file on file i to its return or to the exception that
\* leaves it
ParseFile(i) ==
    /\ PoolAlive
    /\ task[i].state = "queued"
    /\ LET r == parse_file_of[i, files[i]]
       IN  /\ exc_msg_queue' = exc_msg_queue \o r.puts
           /\ task' = [task EXCEPT ![i].state =
                                       IF r.kind = "return" THEN "returned" ELSE r.kind,
                                   ![i].rec = r.rec]
    /\ UNCHANGED <<files, recs, write_handler, bad_rawacfs, bad_cpids, parent,
                   next_rec, exps>>
    /\ UNCHANGED <<recordVars, selected, dayVars, sent, iteratorVars>>

\* the results handed over as soon as one task has returned
PoolMapReturns_early ==
    /\ parent = "map"
    /\ \E i \in 1..Len(files) : task[i].state = "returned"
    /\ \A i \in 1..Len(files) : task[i].state \in {"queued", "returned"}
    /\ recs' = [i \in 1..Len(files) |-> task[i].rec]
    /\ parent' = "terminate"
    /\ UNCHANGED <<files, task, exc_msg_queue, write_handler, bad_rawacfs,
                   bad_cpids, next_rec, exps>>
    /\ UNCHANGED <<recordVars, selected, dayVars, sent, iteratorVars>>

\* line 245: pool.map returns the results in the order of the files
PoolMapReturns ==
    /\ parent = "map"
    /\ \A i \in 1..Len(files) : task[i].state = "returned"
    /\ recs' = [i \in 1..Len(files) |-> task[i].rec]
    /\ parent' = "terminate"
    /\ UNCHANGED <<files, task, exc_msg_queue, write_handler, bad_rawacfs,
                   bad_cpids, next_rec, exps>>
    /\ UNCHANGED <<recordVars, selected, dayVars, sent, iteratorVars>>

\* line 245: pool.map re-raises in the parent the exception of a task, and
\* parse_rawacf_folder has no handler for it
PoolMapRaises ==
    /\ parent = "map"
    /\ \E i \in 1..Len(files) : task[i].state \notin {"queued", "returned"}
    /\ parent' = "raised"
    /\ UNCHANGED <<files, task, recs, exc_msg_queue, write_handler, bad_rawacfs,
                   bad_cpids, next_rec, exps>>
    /\ UNCHANGED <<recordVars, selected, dayVars, sent, iteratorVars>>

\* line 248
TerminateWriteHandler ==
    /\ parent = "terminate"
    /\ write_handler' = "terminated"
    /\ parent' = "save"
    /\ next_rec' = 1
    /\ UNCHANGED <<files, task, recs, exc_msg_queue, bad_rawacfs, bad_cpids, exps>>
    /\ UNCHANGED <<recordVars, selected, dayVars, sent, iteratorVars>>

\* lines 251-257: one turn of the loop over recs
SaveRec ==
    /\ parent = "save"
    /\ next_rec <= Len(recs)
    /\ exps' = IF ~IsNone(recs[next_rec])
               THEN save_to_db(exps, recs[next_rec]) ELSE exps
    /\ next_rec' = next_rec + 1
    /\ UNCHANGED <<files, task, recs, exc_msg_queue, write_handler, bad_rawacfs,
                   bad_cpids, parent>>
    /\ UNCHANGED <<recordVars, selected, dayVars, sent, iteratorVars>>

\* lines 259-262
FinishFolder ==
    /\ parent = "save"
    /\ next_rec > Len(recs)
    /\ parent' = "done"
    /\ UNCHANGED <<files, task, recs, exc_msg_queue, write_handler, bad_rawacfs,
                   bad_cpids, next_rec, exps>>
    /\ UNCHANGED <<recordVars, selected, dayVars, sent, iteratorVars>>

\* exc_handler_func, one turn of its loop with a message on the queue
HandlerReceives ==
    /\ write_handler = "running"
    /\ exc_msg_queue # <<>>
    /\ LET msg == Head(exc_msg_queue)
           logs == exc_handler_dispatch(
                       [bad_rawacfs |-> bad_rawacfs, bad_cpids |-> bad_cpids],
                       ToString(msg.fname), exc_of(msg.exc))
       IN  /\ bad_cpids' = logs.bad_cpids
           /\ bad_rawacfs' = logs.bad_rawacfs
    /\ exc_msg_queue' = Tail(exc_msg_queue)
    /\ UNCHANGED <<files, task, recs, write_handler, parent, next_rec, exps>>
    /\ UNCHANGED <<recordVars, selected, dayVars, sent, iteratorVars>>

Next ==
    \/ StartWriteHandler
    \/ \E i \in 1..Len(files) : ParseFileMemoryError(i)
    \/ \E i \in 1..Len(files) : ParseFile(i)
    \/ \E i \in 1..Len(files) : ParseFileRecursionLimit(i)
    \/ PoolMapReturns
    \/ PoolMapRaises
    \/ TerminateWriteHandler
    \/ SaveRec
    \/ FinishFolder
    \/ HandlerReceives

Spec == Init /\ [][Next]_vars

\* the call of parse_file for file i: its attempts and its end
WorkerRuns(i) ==
    /\ i <= Len(files)
    /\ ParseFile(i) \/ ParseFileMemoryError(i) \/ ParseFileRecursionLimit(i)

\* every worker of the pool is a process of its own and goes on with the call
\* it is in
FairSpec == Spec /\ \A i \in 1..MaxFiles : WF_vars(WorkerRuns(i))

-----------------------------------------------------------------------------
(* SpecDays: parse.process_rawacfs_day and parse.process_rawacfs_month *)

Years == {2016, 2017}

\* the calls: a whole month, or one day of a month
Requests ==
    {[fn |-> "month", year |-> y, month |-> m, day |-> 0] :
        y \in Years, m \in 1..12}
    \cup UNION {{[fn |-> "day", year |-> y, month |-> m, day |-> d] :
                    d \in 1..DaysInMonth(y, m)} : y \in Years, m \in 1..12}

\* np.arange(1, last_day + 1), or the one day of process_rawacfs_day
first_day(req) == IF req.fn = "month" THEN 1 ELSE req.day

\* calendar.monthrange(year, month)[1]
last_day(req) ==
    IF req.fn = "month" THEN DaysInMonth(req.year, req.month) ELSE req.day

InitDays ==
    /\ request \in Requests
    /\ day = 0
    /\ driver = "connect"
    /\ days_log = NoDays
    /\ RecordIdle
    /\ FolderIdle
    /\ selected = <<>>
    /\ sent = 0
    /\ IteratorIdle

\* the statements of a day's cycle with the clearing put before the parsing
next_step_clear_first(step) ==
    CASE step = "fetch" -> "clear"
      [] step = "clear" -> "parse"
      [] step = "parse" -> "fetch"

\* the statement that follows a step in the body of the loop: globus_query,
\* parse_rawacf_folder, clear_endpoint, and globus_query of the next turn
next_step(step) ==
    CASE step = "fetch" -> "parse"
      [] step = "parse" -> "clear"
      [] step = "clear" -> "fetch"

\* control goes on after a step: the next statement of the day, or the next
\* day of the loop, or the end of the function
Advance(step) ==
    IF next_step(step) # "fetch"
    THEN driver' = next_step(step) /\ day' = day
    ELSE IF day < last_day(request)
    THEN driver' = "fetch" /\ day' = day + 1
    ELSE driver' = "finished" /\ day' = day

\* rut.globus_connect(), then the first day
GlobusConnect ==
    /\ driver = "connect"
    /\ day' = first_day(request)
    /\ driver' = "fetch"
    /\ UNCHANGED <<request, days_log, selected, sent, iteratorVars>>
    /\ UNCHANGED <<recordVars, folderVars>>

\* rut.globus_query(script_query): it blocks until the script ends, and a
\* failed query is logged and returns as well
GlobusQuery ==
    /\ driver = "fetch"
    /\ days_log' = [days_log EXCEPT !.fetched = @ \cup {day}]
    /\ Advance("fetch")
    /\ UNCHANGED <<request, selected, sent, iteratorVars>>
    /\ UNCHANGED <<recordVars, folderVars>>

\* parse_rawacf_folder(rut.ENDPOINT, conn=conn) returns
ParseFolderReturns ==
    /\ driver = "parse"
    /\ days_log' = [days_log EXCEPT !.parsed = @ \cup {day}]
    /\ Advance("parse")
    /\ UNCHANGED <<request, selected, sent, iteratorVars>>
    /\ UNCHANGED <<recordVars, folderVars>>

\* parse_rawacf_folder raises what pool.map re-raised: neither function
\* handles it, and the call ends there
ParseFolderRaises ==
    /\ driver = "parse"
    /\ driver' = "raised"
    /\ UNCHANGED <<request, day, days_log, selected, sent, iteratorVars>>
    /\ UNCHANGED <<recordVars, folderVars>>

\* rut.clear_endpoint() inside its try
ClearEndpoint ==
    /\ driver = "clear"
    /\ days_log' = [days_log EXCEPT !.cleared = @ \cup {day}]
    /\ Advance("clear")
    /\ UNCHANGED <<request, selected, sent, iteratorVars>>
    /\ UNCHANGED <<recordVars, folderVars>>

NextDays ==
    \/ GlobusConnect
    \/ GlobusQuery
    \/ ParseFolderReturns
    \/ ParseFolderRaises
    \/ ClearEndpoint

SpecDays == InitDays /\ [][NextDays]_vars

-----------------------------------------------------------------------------
(* SpecLogs: calls of write_bad_rawacf and write_inconsistent_rawacf *)

LogNames == {"20170209.0000.00.sas.rawacf", "20170209.0200.00.sas.rawacf.bz2"}

\* what write_bad_rawacf is called with: the decoder's errors, and the
\* BadRawacfError of tester.test_err_writers
BadExcs ==
    {Exc("DmapDataError", DmapMessage), Exc("DmapDataError", <<>>),
     Exc("BadRawacfError", <<"Test Bad Exception">>)}

\* what write_inconsistent_rawacf is called with: the error of parse_file,
\* and the one of tester.test_err_writers
InconsistentExcs ==
    {Exc("InconsistentRawacfError", InconsistentMessage),
     Exc("InconsistentRawacfError", <<"Test Inconsistent Exception">>)}

IsLogName(piece) == piece \in LogNames

\* the number of calls that have written to the file
CallsMade(log) == Len(SelectSeq(log, IsLogName))

InitLogs ==
    /\ RecordIdle
    /\ FolderIdle
    /\ selected = <<>>
    /\ sent = 0
    /\ IteratorIdle
    /\ DayIdle

Call_write_bad_rawacf ==
    /\ CallsMade(bad_rawacfs) + CallsMade(bad_cpids) < MaxCalls
    /\ \E fname \in LogNames, exc \in BadExcs :
           /\ bad_rawacfs' = write_bad_rawacf(bad_rawacfs, fname, exc)
           /\ arg' = [fname |-> fname, exc |-> exc]
    /\ called' = "write_bad_rawacf"
    /\ UNCHANGED <<dmap_dicts, input, pc, outcome, objection_dict>>
    /\ UNCHANGED <<files, task, recs, exc_msg_queue, write_handler, bad_cpids,
                   parent, next_rec, exps>>
    /\ UNCHANGED <<selected, dayVars, sent, iteratorVars>>

Call_write_inconsistent_rawacf ==
    /\ CallsMade(bad_rawacfs) + CallsMade(bad_cpids) < MaxCalls
    /\ \E fname \in LogNames, exc \in InconsistentExcs :
           /\ bad_cpids' = write_inconsistent_rawacf(bad_cpids, fname, exc)
           /\ arg' = [fname |-> fname, exc |-> exc]
    /\ called' = "write_inconsistent_rawacf"
    /\ UNCHANGED <<dmap_dicts, input, pc, outcome, objection_dict>>
    /\ UNCHANGED <<files, task, recs, exc_msg_queue, write_handler, bad_rawacfs,
                   parent, next_rec, exps>>
    /\ UNCHANGED <<selected, dayVars, sent, iteratorVars>>

NextLogs ==
    \/ Call_write_bad_rawacf
    \/ Call_write_inconsistent_rawacf

SpecLogs == InitLogs /\ [][NextLogs]_vars

-----------------------------------------------------------------------------
(* SpecHandler: exc_handler_func as a process of its own, fed through the    *)
(* queue as tester.test_exc_handler and the workers feed it                  *)

\* the exceptions that are put on the queue
QueueExcs ==
    {Exc("InconsistentRawacfError", InconsistentMessage),
     Exc("DmapDataError", DmapMessage),
     Exc("BadRawacfError", <<"Only one dmap record in the file">>),
     Exc("MemoryError", <<>>),
     Exc("Exception", <<"Test">>)}

InitHandler ==
    /\ RecordIdle
    /\ FolderIdle
    /\ selected = <<>>
    /\ sent = 0
    /\ IteratorIdle
    /\ DayIdle

\* p.start()
StartHandler ==
    /\ write_handler = "not started"
    /\ write_handler' = "running"
    /\ UNCHANGED <<files, task, recs, exc_msg_queue, bad_rawacfs, bad_cpids,
                   parent, next_rec, exps>>
    /\ UNCHANGED <<recordVars, selected, dayVars, sent, iteratorVars>>

\* exc_msg_queue.put((fname, exc)); id numbers the messages in the order of
\* their puts
PutMessage ==
    /\ write_handler # "not started"
    /\ sent < MaxPuts
    /\ \E exc \in QueueExcs :
           exc_msg_queue' = Append(exc_msg_queue,
                                   [fname |-> "testfile", exc |-> exc,
                                    id |-> sent + 1])
    /\ sent' = sent + 1
    /\ UNCHANGED <<files, task, recs, write_handler, bad_rawacfs, bad_cpids,
                   parent, next_rec, exps>>
    /\ UNCHANGED <<recordVars, selected, dayVars, iteratorVars>>

\* a handler that leaves a message of a type it has no branch for on the queue
HandlerGets_known_types ==
    /\ write_handler = "running"
    /\ exc_msg_queue # <<>>
    /\ Head(exc_msg_queue).exc.type
           \in {"InconsistentRawacfError", "DmapDataError", "MemoryError"}
    /\ LET msg == Head(exc_msg_queue)
           logs == exc_handler_dispatch(
                       [bad_rawacfs |-> bad_rawacfs, bad_cpids |-> bad_cpids],
                       msg.fname, msg.exc)
       IN  /\ bad_cpids' = logs.bad_cpids
           /\ bad_rawacfs' = logs.bad_rawacfs
    /\ exc_msg_queue' = Tail(exc_msg_queue)
    /\ UNCHANGED <<files, task, recs, write_handler, parent, next_rec, exps>>
    /\ UNCHANGED <<recordVars, selected, dayVars, sent, iteratorVars>>

\* one turn of the loop of exc_handler_func with a message on the queue
\* (lines 345-355): the message is taken, whatever its type
HandlerGets ==
    /\ write_handler = "running"
    /\ exc_msg_queue # <<>>
    /\ LET msg == Head(exc_msg_queue)
           logs == exc_handler_dispatch(
                       [bad_rawacfs |-> bad_rawacfs, bad_cpids |-> bad_cpids],
                       msg.fname, msg.exc)
       IN  /\ bad_cpids' = logs.bad_cpids
           /\ bad_rawacfs' = logs.bad_rawacfs
    /\ exc_msg_queue' = Tail(exc_msg_queue)
    /\ UNCHANGED <<files, task, recs, write_handler, parent, next_rec, exps>>
    /\ UNCHANGED <<recordVars, selected, dayVars, sent, iteratorVars>>

\* p.terminate()
TerminateHandler ==
    /\ write_handler = "running"
    /\ write_handler' = "terminated"
    /\ UNCHANGED <<files, task, recs, exc_msg_queue, bad_rawacfs, bad_cpids,
                   parent, next_rec, exps>>
    /\ UNCHANGED <<recordVars, selected, dayVars, sent, iteratorVars>>

NextHandler ==
    \/ StartHandler
    \/ PutMessage
    \/ HandlerGets
    \/ TerminateHandler

SpecHandler == InitHandler /\ [][NextHandler]_vars

\* the handler is a process of its own that polls the queue in a loop without
\* end: while it runs and a message waits, its next turn takes place
FairSpecHandler == SpecHandler /\ WF_vars(HandlerGets)

-----------------------------------------------------------------------------
(* SpecStore: the table exps under INSERT, save_to_db, select_exps and       *)
(* dump_db, as tester.test_db drives them                                    *)

\* a column that the INSERT left out
NULL == [none |-> TRUE]

\* "2017-07-18T15:00:37.245704"
sample_start_iso ==
    <<"2", "0", "1", "7", "-", "0", "7", "-", "1", "8", "T", "1", "5", ":",
      "0", "0", ":", "3", "7", ".", "2", "4", "5", "7", "0", "4">>

\* "2017-07-18T15:30:00"
sample_end_iso ==
    <<"2", "0", "1", "7", "-", "0", "7", "-", "1", "8", "T", "1", "5", ":",
      "3", "0", ":", "0", "0">>

\* "2017-07-18T15:30:00.000020"
late_end_iso ==
    <<"2", "0", "1", "7", "-", "0", "7", "-", "1", "8", "T", "1", "5", ":",
      "3", "0", ":", "0", "0", ".", "0", "0", "0", "0", "2", "0">>

\* "2017-07-18T15:00:37"
whole_start_iso ==
    <<"2", "0", "1", "7", "-", "0", "7", "-", "1", "8", "T", "1", "5", ":",
      "0", "0", ":", "3", "7">>

\* the row of INSERT INTO exps (stid, start_iso, end_iso) VALUES (?, ?, ?)
bare_row(stid, start_iso, end_iso) ==
    [stid |-> stid, start_iso |-> start_iso, end_iso |-> end_iso,
     cmd_name |-> NULL, cmd_args |-> NULL, cpid |-> NULL, min_nave |-> NULL,
     times_consistent |-> NULL, not_corrupt |-> NULL, min_tfreq |-> NULL,
     max_tfreq |-> NULL, xcf |-> NULL]

BareRows ==
    {bare_row(stid, start_iso, end_iso) :
        stid \in {3, 5}, start_iso \in {sample_start_iso, whole_start_iso},
        end_iso \in {sample_end_iso, late_end_iso}}

\* Records of parsed files
StoreRecords ==
    {record_from_dics(<<EpochAt(3, stid, T0), EpochAt(3, stid, T0plus20s)>>).rec :
        stid \in {3, 5}}

\* the queries
select_all == "select * from exps"
select_stid_3 == "select * from exps where stid = 3"
StoreQueries == {select_all, select_stid_3}

\* the row satisfies the WHERE clause of the query
Matches(sql, row) == sql = select_all \/ row.stid = 3

\* cur.fetchall() after cur.execute(sql)
fetchall(table, sql) ==
    LET match(row) == Matches(sql, row)
    IN  SelectSeq(table, match)

\* select_exps reading one entry with fetchone() instead of all of them
select_exps_fetchone(table, sql) ==
    LET entries == fetchall(table, sql)
    IN  [k \in 1..(IF entries = <<>> THEN 0 ELSE 1) |->
            record_from_tuple(fetch_tuple(entries[k]))]

\* select_exps: one Record from each entry fetched
select_exps(table, sql) ==
    LET entries == fetchall(table, sql)
    IN  [k \in 1..Len(entries) |-> record_from_tuple(fetch_tuple(entries[k]))]

\* dump_db: delete from exps
dump_db(table) == <<>>

InitStore ==
    /\ RecordIdle
    /\ FolderIdle
    /\ selected = <<>>
    /\ sent = 0
    /\ IteratorIdle
    /\ DayIdle

\* cur.execute('INSERT INTO exps (stid, start_iso, end_iso) ...'): a row whose
\* key is in the table already raises and the table stays as it was
Insert ==
    /\ Len(exps) < MaxRows
    /\ \E row \in BareRows :
           /\ ~key_exists(exps, row)
           /\ exps' = Append(exps, row)
    /\ called' = "INSERT"
    /\ pc' = "inserted"
    /\ UNCHANGED <<dmap_dicts, input, arg, outcome, objection_dict>>
    /\ UNCHANGED <<files, task, recs, exc_msg_queue, write_handler, bad_rawacfs,
                   bad_cpids, parent, next_rec>>
    /\ UNCHANGED <<selected, dayVars, sent, iteratorVars>>

Store_save_to_db ==
    /\ Len(exps) < MaxRows
    /\ \E rec \in StoreRecords : exps' = save_to_db(exps, rec)
    /\ called' = "save_to_db"
    /\ pc' = "inserted"
    /\ UNCHANGED <<dmap_dicts, input, arg, outcome, objection_dict>>
    /\ UNCHANGED <<files, task, recs, exc_msg_queue, write_handler, bad_rawacfs,
                   bad_cpids, parent, next_rec>>
    /\ UNCHANGED <<selected, dayVars, sent, iteratorVars>>

Call_select_exps ==
    /\ \E sql \in StoreQueries :
           /\ selected' = select_exps(exps, sql)
           /\ arg' = sql
    /\ called' = "select_exps"
    /\ UNCHANGED <<dmap_dicts, input, pc, outcome, objection_dict>>
    /\ UNCHANGED folderVars
    /\ UNCHANGED <<dayVars, sent, iteratorVars>>

Call_dump_db ==
    /\ exps' = dump_db(exps)
    /\ called' = "dump_db"
    /\ pc' = "dumped"
    /\ UNCHANGED <<dmap_dicts, input, arg, outcome, objection_dict>>
    /\ UNCHANGED <<files, task, recs, exc_msg_queue, write_handler, bad_rawacfs,
                   bad_cpids, parent, next_rec>>
    /\ UNCHANGED <<selected, dayVars, sent, iteratorVars>>

NextStore ==
    \/ Insert
    \/ Store_save_to_db
    \/ Call_select_exps
    \/ Call_dump_db

SpecStore == InitStore /\ [][NextStore]_vars

-----------------------------------------------------------------------------
(* SpecMonths: the generator month_year_iterator and the loop that draws     *)
(* from it                                                                   *)

\* the arguments of a call
MonthRanges ==
    [start_month : 1..12, start_year : Years, end_month : 1..12,
     end_year : Years]

ym_start(a) == 12 * a.start_year + a.start_month - 1
ym_end(a) == 12 * a.end_year + a.end_month - 1

InitMonths ==
    /\ RecordIdle
    /\ FolderIdle
    /\ selected = <<>>
    /\ sent = 0
    /\ IteratorIdle
    /\ DayIdle

\* the call and the start of range(ym_start, ym_end)
Call_month_year_iterator ==
    /\ pc = "idle"
    /\ \E a \in MonthRanges :
           /\ arg' = a
           /\ ym' = ym_start(a)
    /\ called' = "month_year_iterator"
    /\ pc' = "iterating"
    /\ UNCHANGED <<dmap_dicts, input, outcome, objection_dict, yielded>>
    /\ UNCHANGED <<folderVars, selected, dayVars, sent>>

\* one turn of the for loop: y, m = divmod(ym, 12); yield y, m + 1
Yield ==
    /\ pc = "iterating"
    /\ ym < ym_end(arg)
    /\ yielded' = Append(yielded, <<ym \div 12, (ym % 12) + 1>>)
    /\ ym' = ym + 1
    /\ UNCHANGED recordVars
    /\ UNCHANGED <<folderVars, selected, dayVars, sent>>

\* the range is used up and the generator ends
StopIteration ==
    /\ pc = "iterating"
    /\ ym >= ym_end(arg)
    /\ pc' = "done"
    /\ UNCHANGED <<dmap_dicts, input, called, arg, outcome, objection_dict>>
    /\ UNCHANGED <<folderVars, selected, dayVars, sent, iteratorVars>>

NextMonths ==
    \/ Call_month_year_iterator
    \/ Yield
    \/ StopIteration

SpecMonths == InitMonths /\ [][NextMonths]_vars

-----------------------------------------------------------------------------
(* Properties of check_fields, reconstruct_datetime and record_from_dics *)

Returned(f) == pc = "done" /\ called = f

ReturnedRecord == Returned("record_from_dics") /\ outcome.kind = "Record"

\* a date/time component other than the microseconds is out of range
structurally_invalid(dic) ==
    ~DateTimeValid(dic["time.yr"], dic["time.mo"], dic["time.dy"],
                   dic["time.hr"], dic["time.mt"], dic["time.sc"], 0)

\* some epoch's value of the field differs from the first epoch's
Disagrees(dicts, field) == \E i \in 1..Len(dicts) : dicts[i][field] # dicts[1][field]

\* q = floor(a / 20), stated without division
IsFloorOfTwentieth(q, a) == 20 * q <= a /\ a < 20 * q + 20

PhysOk(dic) == IsFloorOfTwentieth(dic["rsep"], dic["txpl"] * 3)

BeamOk(dic) ==
    LET legacy == dic["stid"] \in radars16_values
    IN  dic["bmnum"] >= 0 /\ (IF legacy THEN dic["bmnum"] <= 15 ELSE dic["bmnum"] <= 23)

\* C1: for every epoch sequence of length 0 or 1, record_from_dics signals
\* BadRawacfError and returns no Record.
C1_DegenerateIsBadRawacfError ==
    (Returned("record_from_dics") /\ Len(input) <= 1)
        => outcome.kind = "BadRawacfError"

\* C3: for every epoch sequence of length >= 2 in which any epoch (first, last
\* or intermediate) has a structurally invalid date/time component,
\* record_from_dics aborts with an error and returns no Record.
C3_MalformedTimestampAborts ==
    (/\ Returned("record_from_dics")
     /\ Len(input) >= 2
     /\ \E i \in 1..Len(input) : structurally_invalid(input[i]))
        => outcome.kind # "Record"

SplitsFrom(cmd, name, args) ==
    \/ (\A i \in 1..Len(cmd) : cmd[i] # " ") /\ name = cmd /\ args = <<>>
    \/ (\A i \in 1..Len(name) : name[i] # " ") /\ name \o <<" ">> \o args = cmd

\* C5: for every Record built from >= 2 epochs, the station id, control
\* program id and cross-correlation flag equal the first epoch's value when the
\* field is absent from the ObjectionSet and -1 otherwise, and the command name
\* and arguments are those of the first epoch's command when it is absent and
\* empty otherwise; an objection on one field leaves the others alone.
C5_FirstValueOrSentinel ==
    ReturnedRecord =>
        LET rec == outcome.rec
            absent(f) == f \notin DOMAIN objection_dict
        IN  /\ Len(input) >= 2
            /\ rec.cpid = (IF absent("cp") THEN input[1]["cp"] ELSE -1)
            /\ rec.stid = (IF absent("stid") THEN input[1]["stid"] ELSE -1)
            /\ rec.xcf = (IF absent("xcf") THEN input[1]["xcf"] ELSE -1)
            /\ IF absent("origin.command")
               THEN SplitsFrom(input[1]["origin.command"], rec.cmd_name, rec.cmd_args)
               ELSE rec.cmd_name = <<>> /\ rec.cmd_args = <<>>
            /\ \A f \in {"cp", "origin.command", "stid", "xcf"} :
                   absent(f) <=> ~Disagrees(input, f)

C5_Witness ==
    /\ ReturnedRecord
    /\ DOMAIN objection_dict = {"cp"}
    /\ outcome.rec.cpid = -1
    /\ outcome.rec.stid = 33
    /\ outcome.rec.xcf = 0
    /\ outcome.rec.cmd_name = <<"n">>

\* C6: for every Record, not_corrupt is true if and only if the ObjectionSet
\* of the sequence is empty: true when the four checked fields are constant and
\* every per-epoch invariant holds, false when only the beam check fails.
C6_NotCorruptIffNoObjection ==
    ReturnedRecord =>
        LET constant == \A f \in {"cp", "origin.command", "stid", "xcf"} :
                            ~Disagrees(input, f)
            phys == \A i \in 1..Len(input) : PhysOk(input[i])
            beam == \A i \in 1..Len(input) : BeamOk(input[i])
        IN  /\ outcome.rec.not_corrupt <=> (DOMAIN objection_dict = {})
            /\ outcome.rec.not_corrupt <=> (constant /\ phys /\ beam)

C6_Witness ==
    /\ ReturnedRecord
    /\ DOMAIN objection_dict = {"bmnum"}
    /\ outcome.rec.not_corrupt = FALSE

\* C7: check_fields puts rsep and txpl in the ObjectionSet if and only if some
\* epoch has (txpl * 3) floor-divided by 20 different from rsep, always both keys
\* or neither; (300, 45) is accepted and (250, 50) is rejected.
C7_RsepTxplFloorRelation ==
    Returned("check_fields") =>
        LET D == DOMAIN objection_dict
        IN  /\ ("rsep" \in D) <=> (\E i \in 1..Len(input) : ~PhysOk(input[i]))
            /\ ("rsep" \in D) <=> ("txpl" \in D)
            /\ (\E i \in 1..Len(input) :
                    input[i]["txpl"] = 250 /\ input[i]["rsep"] = 50) => "rsep" \in D
            /\ (\A i \in 1..Len(input) :
                    input[i]["txpl"] = 300 /\ input[i]["rsep"] = 45) => "rsep" \notin D

C7_Witness ==
    /\ Returned("check_fields")
    /\ Len(input) = 3
    /\ input[1]["txpl"] = 300 /\ input[1]["rsep"] = 45
    /\ input[2]["txpl"] = 301 /\ input[2]["rsep"] = 45
    /\ input[3]["txpl"] = 250 /\ input[3]["rsep"] = 50
    /\ DOMAIN objection_dict = {"rsep", "txpl"}

\* C8: check_fields puts bmnum in the ObjectionSet if and only if some epoch has
\* a beam number outside [0, 16) when its station id is one of the 16-beam
\* stations, or outside [0, 24) otherwise.
C8_BeamRange ==
    Returned("check_fields") =>
        (("bmnum" \in DOMAIN objection_dict)
            <=> (\E i \in 1..Len(input) : ~BeamOk(input[i])))

C8_Witness ==
    /\ Returned("check_fields")
    /\ Len(input) = 2
    /\ input[1]["stid"] = 33 /\ input[1]["bmnum"] = 16
    /\ input[2]["stid"] = 5 /\ input[2]["bmnum"] = 16
    /\ "bmnum" \in DOMAIN objection_dict

\* the timestamp of an epoch: its time fields, the microseconds as corrected
StampOf(dic) ==
    [yr |-> dic["time.yr"], mo |-> dic["time.mo"], dy |-> dic["time.dy"],
     hr |-> dic["time.hr"], mt |-> dic["time.mt"], sc |-> dic["time.sc"],
     us |-> IF dic["time.us"].type = "int" /\ dic["time.us"].val \in 0..999999
            THEN dic["time.us"].val ELSE 1]

\* b is less than 20 s after a
GapBelow20s(a, b) ==
    LET ds == (ToOrdinal(b) - ToOrdinal(a)) * 86400
              + (b.hr - a.hr) * 3600 + (b.mt - a.mt) * 60 + (b.sc - a.sc)
    IN  ds < 20 \/ (ds = 20 /\ b.us < a.us)

\* C9: for every Record, times_consistent is true if and only if every
\* consecutive pair of epoch timestamps, in input order, differs by strictly
\* less than 20 seconds.
C9_TimesConsistentIffGapsBelow20 ==
    ReturnedRecord =>
        ((outcome.rec.times_consistent = 1)
            <=> \A i \in 1..(Len(input) - 1) :
                    (~structurally_invalid(input[i])
                        /\ ~structurally_invalid(input[i + 1]))
                    => GapBelow20s(StampOf(input[i]), StampOf(input[i + 1])))

NotAfter(a, b) ==
    LET da == ToOrdinal(a)
        db == ToOrdinal(b)
        sa == a.hr * 3600 + a.mt * 60 + a.sc
        sb == b.hr * 3600 + b.mt * 60 + b.sc
    IN  da < db \/ (da = db /\ (sa < sb \/ (sa = sb /\ a.us <= b.us)))

\* C11: every Record returned by record_from_dics for an epoch sequence of
\* length >= 2 whose timestamps can all be constructed has its start time not
\* later than its end time, so that its duration is never negative.
C11_StartNotAfterEnd ==
    (/\ ReturnedRecord
     /\ Len(input) >= 2
     /\ \A i \in 1..Len(input) : ~structurally_invalid(input[i]))
        => NotAfter(outcome.rec.start_dt, outcome.rec.end_dt)

\* C12: the start time of a Record is the timestamp reconstructed from the
\* first epoch of the sequence and its end time the one reconstructed from the
\* last epoch, whatever the epochs in between.
C12_StartFirstEndLast ==
    ReturnedRecord =>
        /\ outcome.rec.start_dt = StampOf(input[1])
        /\ outcome.rec.end_dt = StampOf(input[Len(input)])

C12_Witness ==
    /\ ReturnedRecord
    /\ Len(input) = 3
    /\ input[2]["time.sc"] = 10
    /\ input[3]["time.us"] = Int_(999000)
    /\ outcome.rec.start_dt.sc = 50 /\ outcome.rec.start_dt.us = 0
    /\ outcome.rec.end_dt.sc = 9 /\ outcome.rec.end_dt.us = 999000

\* v is the least (greatest) value of the field over the whole sequence
IsLeast(v, dicts, field) ==
    /\ \E i \in 1..Len(dicts) : dicts[i][field] = v
    /\ \A i \in 1..Len(dicts) : v <= dicts[i][field]

IsGreatest(v, dicts, field) ==
    /\ \E i \in 1..Len(dicts) : dicts[i][field] = v
    /\ \A i \in 1..Len(dicts) : v >= dicts[i][field]

\* C13: for every Record, min_tfreq and max_tfreq are the minimum and maximum
\* of the epochs' tfreq and min_nave the minimum of the epochs' nave, over the
\* whole sequence, whether or not the ObjectionSet is empty; a varying tfreq or
\* nave adds no objection.
C13_FrequencyAndNaveExtremes ==
    ReturnedRecord =>
        /\ IsLeast(outcome.rec.min_tfreq, input, "tfreq")
        /\ IsGreatest(outcome.rec.max_tfreq, input, "tfreq")
        /\ IsLeast(outcome.rec.min_nave, input, "nave")
        /\ DOMAIN objection_dict
               \subseteq {"cp", "origin.command", "stid", "xcf", "rsep", "txpl",
                          "bmnum"}
        /\ (/\ \A f \in {"cp", "origin.command", "stid", "xcf"} :
                   ~Disagrees(input, f)
            /\ \A i \in 1..Len(input) : PhysOk(input[i]) /\ BeamOk(input[i]))
               => DOMAIN objection_dict = {}

C13_Witness ==
    /\ ReturnedRecord
    /\ Len(input) = 3
    /\ input[1]["tfreq"] = 10500 /\ input[2]["tfreq"] = 10600
    /\ input[3]["tfreq"] = 10400
    /\ input[1]["nave"] = 5 /\ input[3]["nave"] = 0
    /\ DOMAIN objection_dict = {"cp"}
    /\ outcome.rec.min_tfreq = 10400 /\ outcome.rec.max_tfreq = 10600
    /\ outcome.rec.min_nave = 0

\* the name and the arguments are the parts of cmd before and after its first
\* character of ws, or cmd and the empty string when it has none
SplitAt(ws, cmd, name, args) ==
    IF \A i \in 1..Len(cmd) : cmd[i] \notin ws
    THEN name = cmd /\ args = <<>>
    ELSE /\ Len(name) < Len(cmd)
         /\ name = SubSeq(cmd, 1, Len(name))
         /\ \A i \in 1..Len(name) : name[i] \notin ws
         /\ cmd[Len(name) + 1] \in ws
         /\ args = SubSeq(cmd, Len(name) + 2, Len(cmd))

\* C14, as stated: for every command string that is the same in all epochs,
\* record_from_dics splits it at its first whitespace character into the
\* command name and the command arguments; a command without whitespace gives
\* the whole string as name and empty arguments, without raising.
C14_SplitAtFirstWhitespace ==
    (ReturnedRecord /\ ~Disagrees(input, "origin.command"))
        => SplitAt({" ", "\t"}, input[1]["origin.command"],
                   outcome.rec.cmd_name, outcome.rec.cmd_args)

\* C14, amended: for every command string that is the same in all epochs,
\* record_from_dics splits it at its first blank character (' '), a tab being
\* an ordinary character of the name or of the arguments; a command without a
\* blank gives the whole string as name and empty arguments, without raising.
C14_SplitAtFirstBlank ==
    (ReturnedRecord /\ ~Disagrees(input, "origin.command"))
        => SplitAt({" "}, input[1]["origin.command"],
                   outcome.rec.cmd_name, outcome.rec.cmd_args)

C14_Witness ==
    /\ ReturnedRecord
    /\ ~Disagrees(input, "origin.command")
    /\ input[1]["origin.command"] = <<"a", "\t", "b", " ", "c">>
    /\ outcome.rec.cmd_name = <<"a", "\t", "b">>
    /\ outcome.rec.cmd_args = <<"c">>

\* C15: record_from_dics, check_fields and reconstruct_datetime leave every
\* field of every epoch of their input as it was, also when the microsecond
\* field of an epoch needs correction.
C15_InputLeftUnchanged ==
    pc = "done" => dmap_dicts = input

\* C16: for every Record r, saving r into an empty store and building a
\* Record from the row read back gives a Record equal to r in every field:
\* the timestamps with their microseconds, also when these are 0, and the two
\* flags, which come back as the 1 or 0 that Python holds equal to True or False.
C16_SaveThenLoadRoundTrip ==
    pc = "loaded" =>
        /\ Len(selected) = 1
        /\ LET r == outcome.rec
               r2 == selected[1]
           IN  /\ r2.stid = r.stid
               /\ r2.start_dt = r.start_dt
               /\ r2.end_dt = r.end_dt
               /\ r2.cmd_name = r.cmd_name
               /\ r2.cmd_args = r.cmd_args
               /\ r2.cpid = r.cpid
               /\ r2.min_nave = r.min_nave
               /\ r2.times_consistent = r.times_consistent
               /\ r2.not_corrupt \in {0, 1}
               /\ (r2.not_corrupt = 1) <=> r.not_corrupt
               /\ r2.min_tfreq = r.min_tfreq
               /\ r2.max_tfreq = r.max_tfreq
               /\ r2.xcf = r.xcf

C16_Witness ==
    /\ pc = "loaded"
    /\ outcome.rec.start_dt.us = 0
    /\ outcome.rec.end_dt.us = 1
    /\ exps[1].start_iso =
           <<"2", "0", "1", "7", "-", "0", "3", "-", "0", "1", "T", "0", "0", ":", "0", "0", ":", "1", "0">>
    /\ exps[1].end_iso =
           <<"2", "0", "1", "7", "-", "0", "2", "-", "2", "8", "T">>
           \o <<"2", "3", ":", "5", "9", ":", "5", "0", ".", "0", "0", "0", "0", "0", "1">>
    /\ selected[1].start_dt.us = 0
    /\ selected[1].end_dt.us = 1
    /\ selected[1].not_corrupt = 1

\* every timestamp of the sequence can be constructed
AllConstructible(dicts) ==
    \A i \in 1..Len(dicts) : ~structurally_invalid(dicts[i])

\* C19: for every epoch sequence of length >= 2 whose timestamps can all be
\* constructed, whatever inconsistencies its fields show, record_from_dics
\* returns a complete Record without raising, parse_file returns that same
\* Record and never None, and saving what parse_file returned leaves the
\* Record's row in the store.
C19_InconsistentFileStillRecorded ==
    (Len(input) >= 2 /\ AllConstructible(input)) =>
        /\ Returned("record_from_dics") =>
               /\ outcome.kind = "Record"
               /\ DOMAIN outcome.rec =
                      {"stid", "start_dt", "end_dt", "cmd_name", "cmd_args",
                       "cpid", "min_nave", "times_consistent", "not_corrupt",
                       "min_tfreq", "max_tfreq", "xcf"}
        /\ Returned("parse_file") =>
               /\ outcome.kind = "return"
               /\ ~IsNone(outcome.rec)
               /\ outcome.rec = record_from_dics(input).rec
               /\ outcome.rec.not_corrupt <=> (DOMAIN objection_dict = {})
        /\ (called = "parse_file" /\ pc \in {"saved", "loaded"}) =>
               \E k \in 1..Len(exps) :
                   /\ exps[k].stid = outcome.rec.stid
                   /\ exps[k].cpid = outcome.rec.cpid
                   /\ exps[k].not_corrupt = (IF outcome.rec.not_corrupt THEN 1 ELSE 0)

C19_Witness ==
    /\ called = "parse_file"
    /\ pc = "saved"
    /\ Len(input) = 3
    /\ DOMAIN objection_dict = {"cp", "bmnum"}
    /\ outcome.rec.not_corrupt = FALSE
    /\ outcome.rec.cpid = -1
    /\ Len(exps) = 1
    /\ exps[1].not_corrupt = 0

-----------------------------------------------------------------------------
(* Properties of parse_rawacf_folder *)

\* the file is a rawacf file that the decoder reads
Decoded(file) == file.ext \in {".bz2", ".rawacf"} /\ file.decode = "ok"

\* building the file's record fails hard: degenerate session or malformed
\* timestamp
HardFailure(file) == Decoded(file) /\ record_from_dics(file.dics).kind # "Record"

\* the file's record can be built
Buildable(file) == Decoded(file) /\ record_from_dics(file.dics).kind = "Record"

\* parse_rawacf_folder has returned, or an exception has left it
FolderOver == parent \in {"done", "raised"}

\* C2: in parse_rawacf_folder, a hard failure while building the record of one
\* file does not prevent the records of the other files from being built and
\* saved: once the call is over, every other file whose record can be built has
\* its row in the store.
C2_HardFailureLeavesOtherFilesSaved ==
    FolderOver =>
        \A i, j \in 1..Len(files) :
            (HardFailure(files[j]) /\ Buildable(files[i]))
                => key_exists(exps, row_of(record_from_dics(files[i].dics).rec))


\* no two rows of the store have the same station id and start time
UniqueKeys ==
    \A k, l \in 1..Len(exps) :
        (exps[k].stid = exps[l].stid /\ exps[k].start_iso = exps[l].start_iso)
            => k = l

\* the save loop is about to save a Record whose key is in the store
SavingDuplicate ==
    /\ parent = "save"
    /\ next_rec <= Len(recs)
    /\ ~IsNone(recs[next_rec])
    /\ \E k \in 1..Len(exps) :
           /\ exps[k].stid = recs[next_rec].stid
           /\ exps[k].start_iso = isoformat(recs[next_rec].start_dt)

\* C17: after any sequence of save_to_db calls the store holds at most one row
\* per pair of station id and start time, and a save of a Record whose key is
\* already there leaves the store as it was, the first row kept, and raises
\* nothing: the save loop goes on to the next Record.
C17_OneRowPerKey ==
    /\ []UniqueKeys
    /\ [][(SavingDuplicate /\ next_rec' # next_rec)
            => (exps' = exps /\ parent' = "save" /\ next_rec' = next_rec + 1)]_vars

C17_Witness ==
    /\ parent = "done"
    /\ Len(files) = 2
    /\ files[1] = files[2]
    /\ ~IsNone(recs[1]) /\ ~IsNone(recs[2])
    /\ Len(exps) = 1
    /\ exps[1].stid = 5

\* every task of the pool has returned
AllWorkersFinished == \A i \in 1..Len(files) : task[i].state = "returned"

\* C18: during parse_rawacf_folder, in every interleaving of the workers, the
\* handler and the parent, the store is written by the parent only: a step of
\* a worker never changes it, and every insert is made by the parent's save
\* loop, one row at a time, after every worker has finished.
C18_ParentIsTheOnlyWriter ==
    [][/\ (exps' # exps) =>
              /\ parent = "save"
              /\ AllWorkersFinished
              /\ next_rec' = next_rec + 1
              /\ Len(exps') = Len(exps) + 1
              /\ SubSeq(exps', 1, Len(exps)) = exps
       /\ (task' # task \/ exc_msg_queue' # exc_msg_queue) => exps' = exps]_vars

C18_Witness ==
    /\ parent = "save"
    /\ Len(files) = 2
    /\ next_rec = 2
    /\ Len(exps) = 1
    /\ ~IsNone(recs[2])
    /\ AllWorkersFinished
    /\ exc_msg_queue # <<>>

-----------------------------------------------------------------------------
(* Properties of process_rawacfs_day and process_rawacfs_month *)

\* C20: in process_rawacfs_day and process_rawacfs_month the steps of each day
\* come in the order fetch, parse-and-save, clear: the clearing of a day never
\* starts before parse_rawacf_folder has returned for that day, and the fetch
\* of the next day never starts before the clearing of the day before has
\* been attempted.
C20_FetchParseClearInOrder ==
    /\ days_log.cleared \subseteq days_log.parsed
    /\ days_log.parsed \subseteq days_log.fetched
    /\ \A d \in days_log.fetched :
           d > first_day(request) => (d - 1) \in days_log.cleared
    /\ driver = "parse" => day \in days_log.fetched
    /\ driver = "clear" => day \in days_log.parsed
    /\ (driver = "fetch" /\ day > first_day(request))
           => (day - 1) \in days_log.cleared

C20_Witness ==
    /\ request.fn = "month"
    /\ request.year = 2016 /\ request.month = 2
    /\ day = 29
    /\ driver = "finished"
    /\ days_log.cleared = 1..29

-----------------------------------------------------------------------------
(* Properties of the log writers and of the exception handler *)

\* the number of lines of a text
Lines(text) == Cardinality({i \in 1..Len(text) : text[i] = "\n"})

\* the text with its newlines taken out
RECURSIVE Stripped(_)
Stripped(text) ==
    IF text = <<>> THEN <<>>
    ELSE IF Head(text) = "\n" THEN Stripped(Tail(text))
    ELSE <<Head(text)>> \o Stripped(Tail(text))

\* new is old followed by the one line
AppendsLine(old, new, line) ==
    /\ new = old \o line \o <<"\n">>
    /\ Lines(new) = Lines(old) + 1

Queued(k) == \E i \in 1..Len(exc_msg_queue) : exc_msg_queue[i].id = k

\* C22: while the exception handler is running, every message put on the
\* queue is eventually taken off by it, whatever the type of its exception,
\* and the handler is still running after it took a message, so that it takes
\* the later ones as well.
C22_HandlerConsumesEveryMessage ==
    /\ \A k \in 1..MaxPuts :
           (Queued(k) /\ write_handler = "running")
               ~> (~Queued(k) \/ write_handler # "running")
    /\ [][(exc_msg_queue # <<>> /\ exc_msg_queue' = Tail(exc_msg_queue))
              => (write_handler = "running" /\ write_handler' = "running")]_vars

C22_Witness ==
    /\ write_handler = "running"
    /\ sent = 3
    /\ Len(exc_msg_queue) = 1
    /\ exc_msg_queue[1].id = 3
    /\ exc_msg_queue[1].exc.type = "InconsistentRawacfError"
    /\ Lines(bad_rawacfs) = 1
    /\ bad_cpids = <<>>

\* the handler takes the first message off the queue
TakesMessage ==
    /\ write_handler = "running"
    /\ exc_msg_queue # <<>>
    /\ exc_msg_queue' = Tail(exc_msg_queue)

\* C28: for each message that the handler takes, it appends exactly one line
\* to the bad-cpid list when the exception is an InconsistentRawacfError,
\* exactly one line to the bad-rawacf list when it is a decoder data error,
\* the BadRawacfError derived from it included, and writes nothing for any
\* other type.
C28_HandlerDispatchByType ==
    [][TakesMessage =>
          LET type == Head(exc_msg_queue).exc.type
          IN  /\ type = "InconsistentRawacfError" =>
                     /\ Lines(bad_cpids') = Lines(bad_cpids) + 1
                     /\ bad_rawacfs' = bad_rawacfs
              /\ type \in {"DmapDataError", "BadRawacfError"} =>
                     /\ Lines(bad_rawacfs') = Lines(bad_rawacfs) + 1
                     /\ bad_cpids' = bad_cpids
              /\ type \in {"MemoryError", "Exception"} =>
                     /\ bad_rawacfs' = bad_rawacfs
                     /\ bad_cpids' = bad_cpids]_vars

-----------------------------------------------------------------------------
(* Properties of the workers and the write handler of parse_rawacf_folder *)

\* a step that appends to one of the two lists
ListsChange == bad_rawacfs' # bad_rawacfs \/ bad_cpids' # bad_cpids

\* a step of a worker
WorkerStep == task' # task

\* C26: in parse_rawacf_folder the two lists are appended to only by the one
\* write handler, one message at a time, while it is running; a step of a
\* worker only puts messages on the queue and leaves the lists as they are.
C26_OnlyTheHandlerWritesTheLists ==
    [][/\ ListsChange =>
              /\ write_handler = "running"
              /\ exc_msg_queue # <<>>
              /\ exc_msg_queue' = Tail(exc_msg_queue)
              /\ ~WorkerStep
       /\ WorkerStep =>
              /\ ~ListsChange
              /\ \E puts \in SeqsUpTo({[fname |-> i, exc |-> e] :
                                           i \in 1..Len(files),
                                           e \in {"InconsistentRawacfError",
                                                  "DmapDataError",
                                                  "MemoryError"}}, 1) :
                     exc_msg_queue' = exc_msg_queue \o puts]_vars

C26_Witness ==
    /\ Len(files) = 2
    /\ \A i \in 1..Len(files) : task[i].state = "returned"
    /\ Lines(bad_rawacfs) = 1
    /\ Lines(bad_cpids) = 1
    /\ exc_msg_queue = <<>>
    /\ write_handler = "running"

\* C27: when the handler has been terminated, every message that a worker put
\* on the queue has been taken by the handler and its line has been written:
\* no message is left on the queue.
C27_NoMessageLeftAtTermination ==
    write_handler = "terminated" => exc_msg_queue = <<>>

\* C29: parse_file eventually returns for every file: an attempt that runs
\* out of memory puts one message and is followed by another attempt, and the
\* attempts end with the return of a Record or of None.
C29_ParseFileEventuallyReturns ==
    \A i \in 1..MaxFiles :
        (i <= Len(files) /\ task[i].state = "queued" /\ PoolAlive)
            ~> (i <= Len(files) /\ task[i].state = "returned")

\* the messages that parse_file puts for file i are put in the step that ends
\* a call which did not run out of memory to the last
ParseFileEnds(i) ==
    /\ task[i].state = "queued"
    /\ task'[i].state \notin {"queued", "RuntimeError"}

\* C30: parse_file returns None and puts no message for a file whose name ends
\* in neither .bz2 nor .rawacf; returns None and puts exactly one message when
\* the decoder reports corruption; puts exactly one message and still returns
\* the Record when the Record is flagged as inconsistent; and puts nothing for
\* a fully consistent file.
C30_MessagesOfParseFile ==
    [][\A i \in 1..Len(files) :
          ParseFileEnds(i) =>
              LET f == files[i]
                  decodable == f.ext \in {".bz2", ".rawacf"}
                  built == record_from_dics(f.dics)
              IN  /\ ~decodable =>
                         /\ task'[i].state = "returned"
                         /\ IsNone(task'[i].rec)
                         /\ exc_msg_queue' = exc_msg_queue
                  /\ (decodable /\ f.decode = "DmapDataError") =>
                         /\ task'[i].state = "returned"
                         /\ IsNone(task'[i].rec)
                         /\ exc_msg_queue' =
                                Append(exc_msg_queue,
                                       [fname |-> i, exc |-> "DmapDataError"])
                  /\ (decodable /\ f.decode = "ok" /\ built.kind = "Record"
                        /\ ~built.rec.not_corrupt) =>
                         /\ task'[i].state = "returned"
                         /\ task'[i].rec = built.rec
                         /\ exc_msg_queue' =
                                Append(exc_msg_queue,
                                       [fname |-> i,
                                        exc |-> "InconsistentRawacfError"])
                  /\ (decodable /\ f.decode = "ok" /\ built.kind = "Record"
                        /\ built.rec.not_corrupt) =>
                         /\ task'[i].state = "returned"
                         /\ task'[i].rec = built.rec
                         /\ exc_msg_queue' = exc_msg_queue]_vars

C30_Witness ==
    /\ Len(files) = 2
    /\ files[1].ext = ".txt"
    /\ files[2].decode = "ok"
    /\ task[1].state = "returned"
    /\ IsNone(task[1].rec)
    /\ task[2].state = "returned"
    /\ ~IsNone(task[2].rec)
    /\ ~task[2].rec.not_corrupt
    /\ task[2].attempts = 0
    /\ exc_msg_queue = <<[fname |-> 2, exc |-> "InconsistentRawacfError"]>>
    /\ bad_cpids = <<>>
    /\ bad_rawacfs = <<>>

-----------------------------------------------------------------------------
(* Properties of the table exps *)

\* the code of a character of an ISO text
Ord(c) ==
    CASE c = "-" -> 45
      [] c = "." -> 46
      [] c = ":" -> 58
      [] c = "T" -> 84
      [] OTHER -> 48 + DigitVal(c)

\* s < t as texts are compared: by the first character in which they differ,
\* a text being smaller than every longer text that starts with it
LexLess(s, t) ==
    \E i \in 1..Len(t) :
        /\ i <= Len(s) + 1
        /\ \A j \in 1..(i - 1) : s[j] = t[j]
        /\ (i = Len(s) + 1 \/ Ord(s[i]) < Ord(t[i]))

\* a is an earlier instant than b
Earlier(a, b) == ~NotAfter(b, a)

\* C24: for any two timestamps a and b, a is earlier than b exactly when the
\* ISO text stored for a is lexicographically smaller than the one stored for
\* b, also when one of them has microsecond 0 and is written without fraction.
C24_IsoTextOrderIsTimeOrder ==
    pc \in {"saved", "loaded"} =>
        LET a == outcome.rec.start_dt
            b == outcome.rec.end_dt
            ta == exps[1].start_iso
            tb == exps[1].end_iso
        IN  /\ Earlier(a, b) <=> LexLess(ta, tb)
            /\ Earlier(b, a) <=> LexLess(tb, ta)

C24_Witness ==
    /\ pc = "saved"
    /\ outcome.rec.start_dt.us = 0
    /\ outcome.rec.end_dt.us > 0
    /\ outcome.rec.start_dt.sc = outcome.rec.end_dt.sc
    /\ Len(exps[1].start_iso) < Len(exps[1].end_iso)
    /\ LexLess(exps[1].start_iso, exps[1].end_iso)
    /\ ~LexLess(exps[1].end_iso, exps[1].start_iso)

\* the rows that the query of the last select_exps matches
Matched == {k \in 1..Len(exps) : Matches(arg, exps[k])}

-----------------------------------------------------------------------------
(* Properties of month_year_iterator *)

\* the month after the month p = <<year, month>>
NextMonth(p) == IF p[2] = 12 THEN <<p[1] + 1, 1>> ELSE <<p[1], p[2] + 1>>

\* the start month is not after the end month
StartNotAfterEnd(a) ==
    a.start_year < a.end_year
        \/ (a.start_year = a.end_year /\ a.start_month <= a.end_month)

\* C25: month_year_iterator yields, in chronological order and each exactly
\* once, every (year, month) pair from the start month up to and including
\* the month it is asked to end on.
C25_YieldsThroughEndMonth ==
    (called = "month_year_iterator" /\ pc = "done" /\ StartNotAfterEnd(arg)) =>
        /\ yielded # <<>>
        /\ yielded[1] = <<arg.start_year, arg.start_month>>
        /\ yielded[Len(yielded)] = <<arg.end_year, arg.end_month>>
        /\ \A i \in 1..(Len(yielded) - 1) :
               yielded[i + 1] = NextMonth(yielded[i])

=============================================================================
